---- MODULE Spec2Model ----
(***************************************************************************)
(* Software floating point: the single-word Float of lib/frost and the     *)
(* BigInt-backed Float of lib/float, with their conversions to and from    *)
(* the native 32-bit and 64-bit IEEE-754 encodings.                        *)
(*                                                                         *)
(* A machine word (u64) and a BigInt mantissa are modelled as the set of   *)
(* the positions of their 1 bits, so that the real field widths (8/23,     *)
(* 11/52, 64-bit words) are kept: {0, 3} is 9.                             *)
(***************************************************************************)
EXTENDS Integers, FiniteSets, Sequences, TLC

VARIABLES pc, arg, res

vars == <<pc, arg, res>>

(***************************************************************************)
(* Bounds of the sampled inputs.                                           *)
(***************************************************************************)
\* exponent fields are taken within ExpSpread of 0, of the bias and of all-ones
ExpSpread == 2
\* mantissa fields are the numbers 0..MantSpread at the low end, the same
\* numbers aligned to the top of the field, and their complements
MantSpread == 3
\* integers of the addition table are taken in -AddRange..AddRange
AddRange == 16
\* integers to convert are taken within IntSpread of the powers of two above
\* the precision and of the overflow threshold
IntSpread == 20

\* the iterations of the Newton-Raphson loop of sqrt that are followed when
\* sqrt is applied as one step
MaxNewton == 40

\* the iterations of the loop of rem that are followed
MaxRemIter == 40

\* the iterations of the loop of pi() that are followed
MaxPiIter == 12

\* the iterations of the loop of sqrt that are followed when each is a step
MaxSqrtIter == 200

\* the widest mantissa of the extra configurations pi() is run in
MaxPiMantissa == 40

(***************************************************************************)
(* Machine words as sets of bit positions.                                 *)
(***************************************************************************)
\* the width of u64
WORD == 64

\* test_sqrt takes the roots 0..255
Roots == 256

Max(S) == CHOOSE x \in S : \A y \in S : y <= x

\* the bits of a small non-negative integer
BitsOf(n) == {i \in 0..30 : (n \div (2^i)) % 2 = 1}

RECURSIVE ToInt(_)
\* the integer of a small bit set (below 2^31)
ToInt(S) == IF S = {} THEN 0 ELSE LET m == Max(S) IN 2^m + ToInt(S \ {m})

\* (1 << b) - 1
mask(b) == 0..(b - 1)

\* x << n on u64: the bits shifted past the top are lost
shl(x, n) == {j \in {i + n : i \in x} : j < WORD}

\* x >> n
shr(x, n) == {i - n : i \in {j \in x : j >= n}}

\* x.leading_zeros() on u64
leading_zeros(x) == IF x = {} THEN WORD ELSE WORD - 1 - Max(x)

\* a < b as unsigned integers
ult(a, b) == a # b /\ Max((a \ b) \cup (b \ a)) \in b

RECURSIVE AddBits(_, _)
\* a + b without a width
AddBits(a, b) ==
    IF b = {} THEN a
    ELSE AddBits((a \ b) \cup (b \ a), {i + 1 : i \in a \cap b})

RECURSIVE SubBits(_, _)
\* a - b for a >= b
SubBits(a, b) ==
    IF b = {} THEN a
    ELSE SubBits((a \ b) \cup (b \ a), {i + 1 : i \in b \ a})

\* x.overflowing_add(y) on u64: the wrapped sum and the carry out
overflowing_add(x, y) ==
    LET s == AddBits(x, y)
    IN  <<{i \in s : i < WORD}, WORD \in s>>

\* the smaller of two integers
Min2(a, b) == IF a < b THEN a ELSE b

(***************************************************************************)
(* lib/frost: the single-word Float<EXPONENT, MANTISSA>.                   *)
(* A value carries its configuration (E, M) and whether an assertion has   *)
(* failed while it was built (panicked).                                   *)
(***************************************************************************)
FP16 == <<5, 10>>
FP32 == <<8, 23>>
FP64 == <<11, 52>>

Configs == {FP16, FP32, FP64}

\* FP128, the configuration of test_pi
FP128 == <<15, 112>>

\* (1 << (exponent_bits - 1)) - 1
compute_ieee745_bias(exponent_bits) == 2^(exponent_bits - 1) - 1

frost_get_bias(E) == compute_ieee745_bias(E)

\* the lower and the upper bound of the exponent
frost_get_exp_bounds(E) ==
    <<-frost_get_bias(E), 2^E - frost_get_bias(E)>>

\* Self::default()
frost_default(E, M) ==
    [E |-> E, M |-> M, sign |-> FALSE, exp |-> 0, mantissa |-> {},
     panicked |-> FALSE]

frost_set_sign(a, s) == [a EXCEPT !.sign = s]

frost_set_mantissa(a, sg) == [a EXCEPT !.mantissa = sg]

frost_set_unbiased_exp(a, new_exp) == [a EXCEPT !.exp = new_exp]

\* the two assertions abort the program; otherwise the exponent is stored
\* with the bias added
frost_set_exp(a, new_exp) ==
    LET b == frost_get_exp_bounds(a.E)
    IN  IF new_exp <= b[2] /\ b[1] <= new_exp
        THEN [a EXCEPT !.exp = new_exp + frost_get_bias(a.E)]
        ELSE [a EXCEPT !.panicked = TRUE]

frost_get_sign(a) == a.sign

frost_get_unbiased_exp(a) == a.exp

frost_get_exp(a) == a.exp - frost_get_bias(a.E)

\* the mantissa with the bits below the precision cleared
frost_get_mantissa(a) ==
    LET unused_bits == WORD - a.M - 1
    IN  shl(shr(a.mantissa, unused_bits), unused_bits)

frost_get_frac_mantissa(a) == shl(a.mantissa, 1)

frost_in_special_exp(a) == frost_get_unbiased_exp(a) = ToInt(mask(a.E))

frost_is_negative(a) == frost_get_sign(a)

frost_is_inf(a) == frost_in_special_exp(a) /\ frost_get_frac_mantissa(a) = {}

frost_is_nan(a) == frost_in_special_exp(a) /\ frost_get_frac_mantissa(a) # {}

frost_zero(E, M, sign) ==
    frost_set_mantissa(
        frost_set_unbiased_exp(frost_set_sign(frost_default(E, M), sign), 0),
        {})

frost_inf(E, M, sign) ==
    frost_set_mantissa(
        frost_set_unbiased_exp(frost_set_sign(frost_default(E, M), sign),
                               ToInt(mask(E))),
        {})

\* the mantissa of a NaN is (1 << MANTISSA) - 1, at the low end of the word
frost_nan(E, M, sign) ==
    frost_set_mantissa(
        frost_set_unbiased_exp(frost_set_sign(frost_default(E, M), sign),
                               ToInt(mask(E))),
        mask(M))

\* the field of FROM bits moved below the explicit leading bit (bit 63)
expand_mantissa_to_explicit(FROM, input, leading_1) ==
    (IF leading_1 THEN {WORD - 1} ELSE {}) \cup shl(input, WORD - 1 - FROM)

\* Float<E0, M0>::from_bits::<E, M>(float)
frost_from_bits(E0, M0, E, M, float) ==
    LET biased_exp == ToInt(shr(float, M) \cap mask(E))
        sign == (E + M) \in float
        mantissa == float \cap mask(M)
        a1 == frost_set_sign(frost_default(E0, M0), sign)
        a2 == frost_set_exp(a1, biased_exp - compute_ieee745_bias(E))
        leading_1 == biased_exp # 0
        new_mantissa == expand_mantissa_to_explicit(M, mantissa, leading_1)
    IN  frost_set_mantissa(a2, new_mantissa)

frost_from_f32(E0, M0, bits) == frost_from_bits(E0, M0, 8, 23, bits)

frost_from_f64(E0, M0, bits) == frost_from_bits(E0, M0, 11, 52, bits)

\* self.cast::<E, S>(): set_exp runs before the NaN/Inf case is looked at
frost_cast(self, E, S) ==
    LET x0 == [frost_default(E, S) EXCEPT !.panicked = self.panicked]
        x1 == frost_set_sign(x0, frost_get_sign(self))
        x2 == frost_set_exp(x1, frost_get_exp(self))
        x3 == IF frost_in_special_exp(self)
              THEN frost_set_unbiased_exp(x2, ToInt(mask(E)))
              ELSE x2
    IN  frost_set_mantissa(x3, frost_get_mantissa(self))

\* self.as_native_float::<E, M>(): the bit pattern, and whether the assertion
\* mant <= 1 << M failed
frost_as_native_float(self, E, M) ==
    LET signbit == IF frost_get_sign(self) THEN {E} ELSE {}
        expbits == BitsOf(frost_get_exp(self) + frost_get_bias(self.E))
        hi == shl(signbit \cup expbits, M)
        mant == shr(shl(frost_get_mantissa(self), 1), WORD - M)
    IN  [bits |-> hi \cup mant,
         panicked |-> self.panicked \/ ~(mant = {M} \/ ult(mant, {M}))]

frost_as_f32(self) ==
    LET r == frost_as_native_float(frost_cast(self, 8, 23), 8, 23)
    IN  [r EXCEPT !.bits = r.bits \cap mask(32)]

frost_as_f64(self) == frost_as_native_float(frost_cast(self, 11, 52), 11, 52)

\* add(x, y) once the operand of the larger exponent is first
frost_add_ordered(x, y) ==
    LET exp_delta == frost_get_exp(x) - frost_get_exp(y)
        er0 == frost_get_exp(x)
        y_significand == shr(frost_get_mantissa(y), Min2(exp_delta, 63))
        x_significand == frost_get_mantissa(x)
        is_plus == frost_get_sign(x) = frost_get_sign(y)
        sum == overflowing_add(x_significand, y_significand)
        \* same signs: a carry out is folded back in as the leading bit
        plus_sig == IF sum[2] THEN shr(sum[1], 1) \cup {WORD - 1} ELSE sum[1]
        plus_er == IF sum[2] THEN er0 + 1 ELSE er0
        \* opposite signs: the smaller significand is subtracted from the
        \* larger and the result is shifted left over its leading zeros
        flip == ult(x_significand, y_significand)
        diff == IF flip THEN SubBits(y_significand, x_significand)
                ELSE SubBits(x_significand, y_significand)
        lz == leading_zeros(diff)
        lower_bound == frost_get_exp_bounds(x.E)[1]
        delta_to_min == er0 - lower_bound
        shift == Min2(Min2(delta_to_min, lz), 63)
        minus_sig == shl(diff, shift)
        minus_er == er0 - shift
        xy_significand == IF is_plus THEN plus_sig ELSE minus_sig
        er == IF is_plus THEN plus_er ELSE minus_er
        is_neg == IF is_plus THEN frost_is_negative(x)
                  ELSE (frost_is_negative(x) # flip)
        r0 == [frost_default(x.E, x.M) EXCEPT
                  !.panicked = x.panicked \/ y.panicked]
    IN  IF frost_in_special_exp(x) \/ frost_in_special_exp(y)
        THEN [r0 EXCEPT !.panicked = TRUE]
        ELSE IF xy_significand = {}
        THEN frost_set_sign(
                 frost_set_unbiased_exp(frost_set_mantissa(r0, {}), 0), is_neg)
        ELSE frost_set_sign(
                 frost_set_exp(frost_set_mantissa(r0, xy_significand), er),
                 is_neg)

\* add(x, y)
frost_add(x, y) ==
    IF frost_get_exp(y) > frost_get_exp(x)
    THEN frost_add_ordered(y, x)
    ELSE frost_add_ordered(x, y)

\* new(sign, exp, sig)
frost_new(E, M, sign, exp, sig) ==
    frost_set_mantissa(
        frost_set_exp(frost_set_sign(frost_default(E, M), sign), exp), sig)

\* from_u64(val): the Infinity when val has more bits than the upper
\* exponent bound, else the exponent is the position of the first bit
frost_from_u64(E, M, val) ==
    LET lz == leading_zeros(val)
        size_in_bits == WORD - lz
    IN  IF val = {} THEN frost_zero(E, M, FALSE)
        ELSE IF size_in_bits > frost_get_exp_bounds(E)[2]
        THEN frost_inf(E, M, FALSE)
        ELSE frost_set_sign(
                 frost_set_mantissa(
                     frost_set_exp(frost_default(E, M), size_in_bits - 1),
                     shl(val, lz)),
                 FALSE)

\* from_i64(val)
frost_from_i64(E, M, val) ==
    IF val < 0
    THEN frost_set_sign(frost_from_u64(E, M, BitsOf(-val)), TRUE)
    ELSE frost_from_u64(E, M, BitsOf(val))

(***************************************************************************)
(* lib/float: the BigInt-backed Float<EXPONENT, MANTISSA>.                 *)
(* The value is mantissa * 2^(exp - MANTISSA): the mantissa is an integer  *)
(* whose bit MANTISSA is the leading bit of a normal number.  The Float    *)
(* type itself and its normalization are described by sections 3 and 4.2   *)
(* of the specification; the conversions are those of base/cast.rs.        *)
(***************************************************************************)
float_get_bias(E) == compute_ieee745_bias(E)

\* the smallest and the largest exponent of a finite value: the exponent
\* fields 1 and 2^E - 2
float_get_exp_bounds(E) ==
    <<1 - float_get_bias(E), 2^E - 2 - float_get_bias(E)>>

\* Float::raw(sign, exp, mantissa, category)
float_raw(E, M, sign, exp, mantissa, category) ==
    [E |-> E, M |-> M, sign |-> sign, exp |-> exp, mantissa |-> mantissa,
     category |-> category, panicked |-> FALSE]

float_zero(E, M, sign) == float_raw(E, M, sign, 0, {}, "Zero")

float_inf(E, M, sign) == float_raw(E, M, sign, 0, {}, "Infinity")

float_nan(E, M, sign) == float_raw(E, M, sign, 0, {}, "NaN")

\* Float::new(sign, exp, mantissa): an exponent outside the range of the
\* configuration is a contract violation and aborts
float_new(E, M, sign, exp, mantissa) ==
    LET b == float_get_exp_bounds(E)
        a == float_raw(E, M, sign, exp, mantissa,
                       IF mantissa = {} THEN "Zero" ELSE "Normal")
    IN  [a EXCEPT !.panicked = ~(b[1] <= exp /\ exp <= b[2])]

float_get_sign(a) == a.sign

float_get_exp(a) == a.exp

float_get_mantissa(a) == a.mantissa

float_get_category(a) == a.category

float_set_sign(a, s) == [a EXCEPT !.sign = s]

float_is_inf(a) == a.category = "Infinity"

float_is_nan(a) == a.category = "NaN"

float_is_zero(a) == a.category = "Zero"

float_is_normal(a) == a.category = "Normal"

float_is_negative(a) == a.sign

\* the LossFraction of the n low bits that a right shift by n discards
loss_of_shift(m, n) ==
    LET lost == {i \in m : i < n}
    IN  IF lost = {} THEN "ExactlyZero"
        ELSE IF lost = {n - 1} THEN "ExactlyHalf"
        ELSE IF (n - 1) \in lost THEN "MoreThanHalf"
        ELSE "LessThanHalf"

\* the loss of a shift (msb) that follows an earlier loss (lsb)
combine_loss_fraction(msb, lsb) ==
    IF lsb = "ExactlyZero" THEN msb
    ELSE IF msb = "ExactlyZero" THEN "LessThanHalf"
    ELSE IF msb = "ExactlyHalf" THEN "MoreThanHalf"
    ELSE msb

\* whether the retained mantissa is incremented
need_round_away_from_zero(a, rm, loss) ==
    CASE rm = "NearestTiesToEven" ->
            loss = "MoreThanHalf" \/ (loss = "ExactlyHalf" /\ 0 \in a.mantissa)
      [] rm = "Zero" -> FALSE
      [] rm = "Positive" -> ~a.sign
      [] rm = "Negative" -> a.sign

\* step 5: rounding, with the renewed overflow check after a carry
float_round(a, rm, loss) ==
    LET b == float_get_exp_bounds(a.E)
        up == [a EXCEPT !.mantissa = AddBits(a.mantissa, {0})]
        r == IF loss # "ExactlyZero" /\ need_round_away_from_zero(a, rm, loss)
             THEN IF (a.M + 1) \in up.mantissa
                  THEN IF a.exp < b[2]
                       THEN [up EXCEPT !.mantissa = shr(up.mantissa, 1),
                                       !.exp = a.exp + 1]
                       ELSE float_inf(a.E, a.M, a.sign)
                  ELSE up
             ELSE a
    IN  IF r.category = "Normal" /\ r.mantissa = {}
        THEN float_zero(a.E, a.M, a.sign)
        ELSE r

\* a.normalize(rm, loss)
float_normalize(a, rm, loss) ==
    IF a.category \in {"NaN", "Infinity"} THEN a
    ELSE IF a.mantissa = {}
    THEN [float_zero(a.E, a.M, a.sign) EXCEPT !.panicked = a.panicked]
    ELSE
    LET b == float_get_exp_bounds(a.E)
        \* step 2: the shift that brings the leading bit to bit MANTISSA
        align == Max(a.mantissa) - a.M
        \* step 4: never below the smallest exponent
        exp_change == IF a.exp + align < b[1] THEN b[1] - a.exp ELSE align
        moved == [a EXCEPT
                    !.category = "Normal",
                    !.exp = a.exp + exp_change,
                    !.mantissa = IF exp_change < 0
                                 THEN {i - exp_change : i \in a.mantissa}
                                 ELSE shr(a.mantissa, exp_change)]
        loss2 == IF exp_change > 0
                 THEN combine_loss_fraction(
                          loss_of_shift(a.mantissa, exp_change), loss)
                 ELSE loss
    IN  \* step 3: overflow
        IF a.exp + align > b[2]
        THEN [float_inf(a.E, a.M, a.sign) EXCEPT !.panicked = a.panicked]
        ELSE float_round(moved, rm, loss2)

\* from_u64 that truncates instead of rounding to nearest
float_from_u64_truncating(E, M, val) ==
    float_normalize(float_new(E, M, FALSE, M, val), "Zero", "ExactlyZero")

\* Float::from_u64(val)
float_from_u64(E, M, val) ==
    float_normalize(float_new(E, M, FALSE, M, val),
                    "NearestTiesToEven", "ExactlyZero")

\* Float::from_i64(val), val given as an integer
float_from_i64(E, M, val) ==
    IF val < 0
    THEN float_set_sign(float_from_u64(E, M, BitsOf(-val)), TRUE)
    ELSE float_from_u64(E, M, BitsOf(val))

\* from_bits without the exponent adjustment of the denormals
float_from_bits_no_denormal_adjust(E, M, float) ==
    LET biased_exp == ToInt(shr(float, M) \cap mask(E))
        sign == (E + M) \in float
        mantissa == float \cap mask(M)
        exp == biased_exp - compute_ieee745_bias(E)
    IN  IF biased_exp = ToInt(mask(E))
        THEN IF mantissa = {} THEN float_inf(E, M, sign)
             ELSE float_nan(E, M, sign)
        ELSE IF biased_exp # 0
        THEN float_raw(E, M, sign, exp, AddBits(mantissa, {M}), "Normal")
        ELSE float_raw(E, M, sign, exp, mantissa,
                       IF mantissa = {} THEN "Zero" ELSE "Normal")

\* from_bits that reads the sign one bit too low
float_from_bits_sign_off_by_one(E, M, float) ==
    LET biased_exp == ToInt(shr(float, M) \cap mask(E))
        sign == (E + M - 1) \in float
        mantissa == float \cap mask(M)
        exp == biased_exp - compute_ieee745_bias(E)
    IN  IF biased_exp = ToInt(mask(E))
        THEN IF mantissa = {} THEN float_inf(E, M, sign)
             ELSE float_nan(E, M, sign)
        ELSE IF biased_exp # 0
        THEN float_new(E, M, sign, exp, AddBits(mantissa, {M}))
        ELSE float_new(E, M, sign, exp + 1, mantissa)

\* Float<EXPONENT, MANTISSA>::from_bits(float)
float_from_bits(E, M, float) ==
    LET biased_exp == ToInt(shr(float, M) \cap mask(E))
        sign == (E + M) \in float
        mantissa == float \cap mask(M)
        exp == biased_exp - compute_ieee745_bias(E)
    IN  IF biased_exp = ToInt(mask(E))
        THEN IF mantissa = {} THEN float_inf(E, M, sign)
             ELSE float_nan(E, M, sign)
        ELSE IF biased_exp # 0
        THEN float_new(E, M, sign, exp, AddBits(mantissa, {M}))
        ELSE float_new(E, M, sign, exp + 1, mantissa)

\* self.cast::<E, M>()
float_cast(self, E, M) ==
    LET exp_delta == self.M - M
        x == float_raw(E, M, float_get_sign(self),
                       float_get_exp(self) - exp_delta,
                       float_get_mantissa(self), float_get_category(self))
    IN  float_normalize([x EXCEPT !.panicked = self.panicked],
                        "NearestTiesToEven", "ExactlyZero")

\* self.as_native_float(): the bit pattern, and whether one of the two
\* assertions (exp > 0, mantissa <= 1 << MANTISSA) failed
float_as_native_float(self) ==
    LET E == self.E
        M == self.M
        cat == float_get_category(self)
        exp0 == float_get_exp(self) + float_get_bias(E)
        m == float_get_mantissa(self)
        exp == CASE cat = "Infinity" -> ToInt(mask(E))
                 [] cat = "NaN" -> ToInt(mask(E))
                 [] cat = "Zero" -> 0
                 [] cat = "Normal" ->
                      IF exp0 = 1 /\ shr(m, M) = {} THEN 0 ELSE exp0
        mantissa == CASE cat = "Infinity" -> {}
                      [] cat = "NaN" -> {M - 1}
                      [] cat = "Zero" -> {}
                      [] cat = "Normal" -> m \cap mask(M)
        signbit == IF float_get_sign(self) THEN {E} ELSE {}
        \* exp is a u64: a negative sum wraps and passes assert!(exp > 0)
        expbits == IF exp < 0 THEN mask(WORD) \ BitsOf(-exp - 1)
                   ELSE BitsOf(exp)
        failed == (cat = "Normal" /\ exp0 = 0)
                  \/ ~(mantissa = {M} \/ ult(mantissa, {M}))
    IN  [bits |-> shl(signbit \cup expbits, M) \cup mantissa,
         panicked |-> self.panicked \/ failed]

float_as_f32(self) ==
    LET r == float_as_native_float(float_cast(self, 8, 23))
    IN  [r EXCEPT !.bits = r.bits \cap mask(32)]

float_as_f64(self) == float_as_native_float(float_cast(self, 11, 52))

float_from_f32(E, M, bits) == float_cast(float_from_bits(8, 23, bits), E, M)

float_from_f64(E, M, bits) == float_cast(float_from_bits(11, 52, bits), E, M)

(***************************************************************************)
(* The native side: IEEE-754 bit patterns as the tests build and read them *)
(***************************************************************************)
\* the pattern with the given sign, exponent field and mantissa field
pattern(E, M, sign, expf, mant) ==
    mant \cup {i + M : i \in BitsOf(expf)} \cup (IF sign THEN {E + M} ELSE {})

native_exp_field(E, M, b) == ToInt(shr(b, M) \cap mask(E))

native_mant_field(E, M, b) == b \cap mask(M)

native_sign(E, M, b) == (E + M) \in b

\* f32::is_nan, f64::is_nan
native_is_nan(E, M, b) ==
    native_exp_field(E, M, b) = ToInt(mask(E)) /\ native_mant_field(E, M, b) # {}

\* f32::is_infinite, f64::is_infinite
native_is_infinite(E, M, b) ==
    native_exp_field(E, M, b) = ToInt(mask(E)) /\ native_mant_field(E, M, b) = {}

\* f64::from(n) of a small integer n: exact, and 0 is +0
native_from_int(E, M, n) ==
    LET a == IF n < 0 THEN -n ELSE n
        k == Max(BitsOf(a))
    IN  IF n = 0 THEN {}
        ELSE pattern(E, M, n < 0, compute_ieee745_bias(E) + k,
                     {i + (M - k) : i \in BitsOf(a) \ {k}})

\* the nearest value to the integer n > 0 in the format (E, M), ties to even,
\* as `n as f32` computes it: by integer division, Infinity past the range
native_nearest_int(E, M, n) ==
    LET k == Max(BitsOf(n))
        d == IF k > M THEN 2^(k - M) ELSE 1
        q == n \div d
        r == n % d
        up == 2 * r > d \/ (2 * r = d /\ q % 2 = 1)
        q1 == IF up THEN q + 1 ELSE q
        carry == q1 = 2^(M + 1)
        k1 == IF carry THEN k + 1 ELSE k
        q2 == IF carry THEN 2^M ELSE q1
        frac == IF k > M THEN BitsOf(q2) \ {M}
                ELSE {i + (M - k) : i \in BitsOf(n) \ {k}}
    IN  IF k1 > compute_ieee745_bias(E)
        THEN pattern(E, M, FALSE, ToInt(mask(E)), {})
        ELSE pattern(E, M, FALSE, compute_ieee745_bias(E) + k1, frac)

(***************************************************************************)
(* The arithmetic operators of the BigInt-backed Float (section 4.4 of the *)
(* specification): the exact result of the operation, given to the         *)
(* normalization engine with NearestTiesToEven.                            *)
(***************************************************************************)
RECURSIVE MulBits(_, _)
\* a * b without a width
MulBits(a, b) ==
    IF b = {} THEN {}
    ELSE LET i == Max(b)
         IN  AddBits({j + i : j \in a}, MulBits(a, b \ {i}))

RECURSIVE DivRange(_, _, _, _, _)
\* digit-by-digit shift-and-subtract over the bits hi down to lo of n, from
\* the remainder r: the quotient bits and the new remainder
DivRange(n, d, r, hi, lo) ==
    IF hi = lo
    THEN LET r2 == {j + 1 : j \in r} \cup (IF lo \in n THEN {0} ELSE {})
         IN  IF ult(r2, d) THEN <<{}, r2>> ELSE <<{lo}, SubBits(r2, d)>>
    ELSE LET mid == (hi + lo + 1) \div 2
             upper == DivRange(n, d, r, hi, mid)
             lower == DivRange(n, d, upper[2], mid - 1, lo)
         IN  <<upper[1] \cup lower[1], lower[2]>>

\* <<n div d, n mod d>> for d # 0
DivBits(n, d) ==
    IF n = {} THEN <<{}, {}>> ELSE DivRange(n, d, {}, Max(n), 0)

\* the mantissas of the Normal values a and b over their smaller exponent
aligned(a, b) ==
    LET e0 == Min2(a.exp, b.exp)
    IN  <<{i + (a.exp - e0) : i \in a.mantissa},
          {i + (b.exp - e0) : i \in b.mantissa}, e0>>

\* the value of a loop that has not returned after the modelled number of
\* iterations
unfinished(E, M) == float_raw(E, M, FALSE, 0, {}, "Unfinished")

\* an operand is the value of a call that has not returned: what is computed
\* from it has not returned either
pending(a, b) == a.category = "Unfinished" \/ b.category = "Unfinished"

\* |a| < |b|
float_abs_lt(a, b) ==
    IF a.category = "Infinity" THEN FALSE
    ELSE IF b.category = "Infinity" THEN TRUE
    ELSE IF b.category = "Zero" THEN FALSE
    ELSE IF a.category = "Zero" THEN TRUE
    ELSE ult(aligned(a, b)[1], aligned(a, b)[2])

\* -1, 0 or 1
float_signum(a) == IF a.category = "Zero" THEN 0 ELSE IF a.sign THEN -1 ELSE 1

\* a < b: false when an operand is a NaN, and -0 is not below +0
float_lt(a, b) ==
    IF a.category = "NaN" \/ b.category = "NaN" \/ pending(a, b) THEN FALSE
    ELSE IF float_signum(a) # float_signum(b)
    THEN float_signum(a) < float_signum(b)
    ELSE IF float_signum(a) = 1 THEN float_abs_lt(a, b)
    ELSE IF float_signum(a) = -1 THEN float_abs_lt(b, a)
    ELSE FALSE

float_gt(a, b) == float_lt(b, a)

\* a == b: false when an operand is a NaN, and -0 equals +0
float_eq(a, b) ==
    /\ a.category # "NaN" /\ b.category # "NaN" /\ ~pending(a, b)
    /\ ~float_lt(a, b) /\ ~float_lt(b, a)

float_ne(a, b) == ~float_eq(a, b)

float_ge(a, b) == float_gt(a, b) \/ float_eq(a, b)

float_neg(a) == float_set_sign(a, ~a.sign)

\* the mantissas of the Normal values a and b as add aligns them: the one
\* of the smaller exponent is shifted right by the exponent delta, and when
\* the delta is above MANTISSA + 3 what is left of it is a single low bit
\* three places below the precision, which only marks the sum as inexact
addends(a, b) ==
    LET far == a.M + 3
    IN  IF a.exp - b.exp > far
        THEN <<{i + far : i \in a.mantissa}, {0}, a.exp - far>>
        ELSE IF b.exp - a.exp > far
        THEN <<{0}, {i + far : i \in b.mantissa}, b.exp - far>>
        ELSE aligned(a, b)

\* a + b
float_add(a, b) ==
    IF pending(a, b) THEN unfinished(a.E, a.M)
    ELSE
        LET al == addends(a, b)
            same == a.sign = b.sign
            a_smaller == ult(al[1], al[2])
            m == IF same THEN AddBits(al[1], al[2])
                 ELSE IF a_smaller THEN SubBits(al[2], al[1])
                 ELSE SubBits(al[1], al[2])
            s == IF ~same /\ a_smaller THEN b.sign ELSE a.sign
        IN  IF a.category = "NaN" \/ b.category = "NaN"
            THEN float_nan(a.E, a.M, a.sign)
            ELSE IF a.category = "Infinity"
            THEN IF b.category = "Infinity" /\ ~same
                 THEN float_nan(a.E, a.M, a.sign) ELSE a
            ELSE IF b.category = "Infinity" THEN b
            ELSE IF a.category = "Zero"
            THEN IF b.category = "Zero"
                 THEN float_zero(a.E, a.M, a.sign /\ b.sign) ELSE b
            ELSE IF b.category = "Zero" THEN a
            ELSE IF m = {} THEN float_zero(a.E, a.M, FALSE)
            ELSE float_normalize(float_raw(a.E, a.M, s, al[3], m, "Normal"),
                                 "NearestTiesToEven", "ExactlyZero")

\* a - b: addition with the sign of b flipped
float_sub(a, b) == float_add(a, float_neg(b))

\* a * b: the mantissas multiplied, the exponents summed
float_mul(a, b) ==
    IF pending(a, b) THEN unfinished(a.E, a.M)
    ELSE
        LET s == a.sign # b.sign
            cats == {a.category, b.category}
        IN  IF "NaN" \in cats \/ cats = {"Infinity", "Zero"}
            THEN float_nan(a.E, a.M, s)
            ELSE IF "Infinity" \in cats THEN float_inf(a.E, a.M, s)
            ELSE IF "Zero" \in cats THEN float_zero(a.E, a.M, s)
            ELSE float_normalize(
                     float_raw(a.E, a.M, s, a.exp + b.exp - a.M,
                               MulBits(a.mantissa, b.mantissa), "Normal"),
                     "NearestTiesToEven", "ExactlyZero")

\* a / b: the mantissas long-divided to MANTISSA + 2 fraction bits, the
\* exponents subtracted, a nonzero remainder kept as a loss
float_div(a, b) ==
    IF pending(a, b) THEN unfinished(a.E, a.M)
    ELSE
        LET s == a.sign # b.sign
            \* both leading bits brought to bit MANTISSA
            la == a.M - Max(a.mantissa)
            lb == a.M - Max(b.mantissa)
            n == {i + la + a.M + 2 : i \in a.mantissa}
            d == {i + lb : i \in b.mantissa}
            qr == DivBits(n, d)
        IN  IF a.category = "NaN" \/ b.category = "NaN"
               \/ (a.category = b.category /\ a.category # "Normal")
            THEN float_nan(a.E, a.M, s)
            ELSE IF a.category = "Infinity" \/ b.category = "Zero"
            THEN float_inf(a.E, a.M, s)
            ELSE IF a.category = "Zero" \/ b.category = "Infinity"
            THEN float_zero(a.E, a.M, s)
            ELSE float_normalize(
                     float_raw(a.E, a.M, s, (a.exp - la) - (b.exp - lb) - 2,
                               qr[1], "Normal"),
                     "NearestTiesToEven",
                     IF qr[2] = {} THEN "ExactlyZero" ELSE "LessThanHalf")

(***************************************************************************)
(* src/functions.rs: sqr, sqrt, abs, max, min, scale, rem, pi and sin.     *)
(***************************************************************************)
float_sqr(a) == float_mul(a, a)

\* one Newton-Raphson iteration: (x + (target / x)) / two
sqrt_next(target, x) ==
    float_div(float_add(x, float_div(target, x)),
              float_from_u64(x.E, x.M, {1}))

\* the first iterate of sqrt: max(2, target)
sqrt_seed(target) ==
    LET two == float_from_u64(target.E, target.M, {1})
    IN  IF float_lt(target, two) THEN two ELSE target

\* an exit test that also leaves the loop when the iterate went down
sqrt_exits_on_any_step(prev, x) ==
    float_lt(prev, x) \/ float_eq(x, prev) \/ float_lt(x, prev)

\* an exit test without 'x == prev'
sqrt_exits_on_rise_only(prev, x) == float_lt(prev, x)

\* the exit test of the loop of sqrt
sqrt_exits(prev, x) == float_lt(prev, x) \/ float_eq(x, prev)

RECURSIVE sqrt_loop(_, _, _)
sqrt_loop(target, prev, fuel) ==
    LET x == sqrt_next(target, prev)
    IN  IF sqrt_exits(prev, x) THEN x
        ELSE IF fuel <= 1 THEN unfinished(x.E, x.M)
        ELSE sqrt_loop(target, x, fuel - 1)

\* whether sqrt returns before its loop
sqrt_returns_early(a) ==
    \/ float_is_zero(a) \/ float_is_nan(a) \/ float_is_negative(a)
    \/ float_is_inf(a)

\* the early returns of sqrt with the test for a negative input first
sqrt_early_negative_first(a) ==
    IF float_is_nan(a) \/ float_is_negative(a)
    THEN float_nan(a.E, a.M, float_get_sign(a))
    ELSE a

\* the early returns of sqrt
sqrt_early(a) ==
    IF float_is_zero(a) THEN a
    ELSE IF float_is_nan(a) \/ float_is_negative(a)
    THEN float_nan(a.E, a.M, float_get_sign(a))
    ELSE a

\* self.sqrt()
float_sqrt(a) ==
    IF sqrt_returns_early(a) THEN sqrt_early(a)
    ELSE sqrt_loop(a, sqrt_seed(a), MaxNewton)

\* self.abs()
float_abs(a) == float_set_sign(a, FALSE)

\* max that looks at the signs before it looks for a NaN
float_max_signs_first(a, other) ==
    IF float_get_sign(a) # float_get_sign(other)
    THEN IF float_get_sign(a) THEN other ELSE a
    ELSE IF float_is_nan(a) THEN other
    ELSE IF float_is_nan(other) THEN a
    ELSE IF float_gt(a, other) THEN a ELSE other

\* self.max(other)
float_max(a, other) ==
    IF float_is_nan(a) THEN other
    ELSE IF float_is_nan(other) THEN a
    ELSE IF float_get_sign(a) # float_get_sign(other)
    THEN IF float_get_sign(a) THEN other ELSE a
    ELSE IF float_gt(a, other) THEN a ELSE other

\* self.min(other)
float_min(a, other) ==
    IF float_is_nan(a) THEN other
    ELSE IF float_is_nan(other) THEN a
    ELSE IF float_get_sign(a) # float_get_sign(other)
    THEN IF float_get_sign(a) THEN a ELSE other
    ELSE IF float_gt(a, other) THEN other ELSE a

\* self.scale(scale, rm)
float_scale(a, scale, rm) ==
    IF ~float_is_normal(a) THEN a
    ELSE float_normalize(
             float_new(a.E, a.M, float_get_sign(a), float_get_exp(a) + scale,
                       float_get_mantissa(a)),
             rm, "ExactlyZero")

\* the condition of the loop of rem
rem_continues(lhs, rhs) == float_ge(lhs, rhs) /\ float_is_normal(lhs)

\* the body of the loop of rem: the new lhs
rem_body(lhs, rhs) ==
    LET scale == float_get_exp(lhs) - float_get_exp(rhs)
        diff0 == float_scale(rhs, scale, "NearestTiesToEven")
        diff == IF float_gt(diff0, lhs)
                THEN float_scale(rhs, scale - 1, "NearestTiesToEven")
                ELSE diff0
    IN  [float_sub(lhs, diff) EXCEPT !.panicked = diff.panicked]

RECURSIVE rem_loop(_, _, _)
rem_loop(lhs, rhs, fuel) ==
    IF ~rem_continues(lhs, rhs) THEN lhs
    ELSE IF fuel = 0 THEN unfinished(lhs.E, lhs.M)
    ELSE rem_loop(rem_body(lhs, rhs), rhs, fuel - 1)

\* the operands of the loop of rem: |self| and |rhs|
rem_operands(a, rhs) ==
    <<float_abs(a), IF float_is_negative(rhs) THEN float_neg(rhs) ELSE rhs>>

\* what rem returns before its loop, if it does
rem_returns_early(a, rhs) ==
    \/ float_is_nan(a) \/ float_is_nan(rhs) \/ float_is_inf(a)
    \/ float_is_zero(rhs) \/ float_is_zero(a) \/ float_is_inf(rhs)

rem_early(a, rhs) ==
    IF float_is_nan(a) \/ float_is_nan(rhs) \/ float_is_inf(a)
       \/ float_is_zero(rhs)
    THEN float_nan(a.E, a.M, float_get_sign(a))
    ELSE a

\* a return that leaves out lhs.set_sign(self.get_sign())
rem_finish_unsigned(a, lhs) == lhs

\* the value rem returns after its loop
rem_finish(a, lhs) ==
    IF lhs.category = "Unfinished" THEN lhs
    ELSE float_set_sign(lhs, float_get_sign(a))

\* self.rem(rhs)
float_rem(a, rhs) ==
    IF rem_returns_early(a, rhs) THEN rem_early(a, rhs)
    ELSE rem_finish(a, rem_loop(rem_operands(a, rhs)[1],
                                rem_operands(a, rhs)[2], MaxRemIter))

\* the variables a, b, t and x of pi() before its loop
pi_start(E, M) ==
    LET one == float_from_i64(E, M, 1)
        two == float_from_i64(E, M, 2)
        four == float_from_i64(E, M, 4)
    IN  [a |-> one, b |-> float_div(one, float_sqrt(two)),
         t |-> float_div(one, four), x |-> one]

\* the condition of the loop of pi(): a != b
pi_continues(v) == float_ne(v.a, v.b)

\* the body of the loop with the product b * y left without its square root
pi_body_without_root(v) ==
    LET two == float_from_i64(v.a.E, v.a.M, 2)
        y == v.a
        a == float_div(float_add(v.a, v.b), two)
        b == float_mul(v.b, y)
        t == float_sub(v.t, float_mul(v.x, float_sqr(float_sub(a, y))))
        x == float_mul(v.x, two)
    IN  [a |-> a, b |-> b, t |-> t, x |-> x]

\* the body of the loop of pi()
pi_body(v) ==
    LET two == float_from_i64(v.a.E, v.a.M, 2)
        y == v.a
        a == float_div(float_add(v.a, v.b), two)
        b == float_sqrt(float_mul(v.b, y))
        t == float_sub(v.t, float_mul(v.x, float_sqr(float_sub(a, y))))
        x == float_mul(v.x, two)
    IN  [a |-> a, b |-> b, t |-> t, x |-> x]

\* the value pi() returns after its loop: a * a / t
pi_finish(v) == float_div(float_mul(v.a, v.a), v.t)

RECURSIVE pi_loop(_, _)
pi_loop(v, fuel) ==
    IF ~pi_continues(v) THEN pi_finish(v)
    ELSE IF fuel = 0 \/ v.b.category = "Unfinished"
    THEN unfinished(v.a.E, v.a.M)
    ELSE pi_loop(pi_body(v), fuel - 1)

\* Self::pi()
float_pi(E, M) == pi_loop(pi_start(E, M), MaxPiIter)

\* the steps of the loop of sin_taylor, 'for i in 1..10': bottom is the
\* u64 factorial, held as a numeral
RECURSIVE sin_taylor_loop(_, _, _, _, _, _)
sin_taylor_loop(x2, i, neg, top, bottom, sum) ==
    IF i = 10 THEN sum
    ELSE LET elem == float_div(top, float_from_u64(x2.E, x2.M, bottom))
         IN  sin_taylor_loop(
                 x2, i + 1, ~neg, float_mul(top, x2),
                 MulBits(MulBits(bottom, BitsOf(i * 2)), BitsOf(i * 2 + 1)),
                 IF neg THEN float_sub(sum, elem) ELSE float_add(sum, elem))

\* Self::sin_taylor(x) = x - x^3 / 3! + x^5 / 5! - ...
sin_taylor(x) ==
    sin_taylor_loop(float_sqr(x), 1, FALSE, x, BitsOf(1),
                    float_zero(x.E, x.M, FALSE))

\* Self::sin_step4_reduction(x, steps): sin(3x) = 3 sin(x) - 4 sin(x)^3
RECURSIVE sin_step4_reduction(_, _)
sin_step4_reduction(x, steps) ==
    IF steps = 0 THEN sin_taylor(x)
    ELSE LET three == float_from_u64(x.E, x.M, BitsOf(3))
             four == float_from_u64(x.E, x.M, BitsOf(4))
             x3 == float_div(x, float_from_u64(x.E, x.M, BitsOf(3)))
             sx == sin_step4_reduction(x3, steps - 1)
         IN  float_sub(float_mul(three, sx),
                       float_mul(four, float_mul(float_mul(sx, sx), sx)))

\* the end of sin: 'if neg { res.neg() } else { res }'
sin_result(sx, neg) == IF neg THEN float_neg(sx) ELSE sx

\* step 4 of sin: the reduction by sin(3x), five levels deep
sin_step4(val, neg) == sin_result(sin_step4_reduction(val, 5), neg)

\* step 3 of sin: if val > pi_half, val = pi - val
sin_step3(val, neg, pi, pi_half) ==
    sin_step4(IF float_gt(val, pi_half) THEN float_sub(pi, val) ELSE val,
              neg)

\* step 2 of sin: if val > pi, val = val - pi and neg is flipped
sin_step2(val, neg, pi, pi_half) ==
    sin_step3(IF float_gt(val, pi) THEN float_sub(val, pi) ELSE val,
              IF float_gt(val, pi) THEN ~neg ELSE neg, pi, pi_half)

\* step 1 of sin: if val > pi2, val = val.rem(pi2)
sin_step1(val, neg, pi, pi2, pi_half) ==
    sin_step2(IF float_gt(val, pi2) THEN float_rem(val, pi2) ELSE val,
              neg, pi, pi_half)

\* pi2 = pi.scale(1, RoundingMode::Zero), pi_half = pi.scale(-1, ...)
sin_with_pi(val, neg, pi) ==
    sin_step1(val, neg, pi, float_scale(pi, 1, "Zero"),
              float_scale(pi, -1, "Zero"))

\* the range reduction of sin and its result, for an operand that passed
\* assert!(self.is_normal()): the sign is taken off first
sin_reduced(self) ==
    sin_with_pi(IF float_is_negative(self) THEN float_neg(self) ELSE self,
                float_is_negative(self), float_pi(self.E, self.M))

\* self.sin(): a Zero is returned as it is, and any other operand that is
\* not Normal fails the assertion
float_sin(self) ==
    IF float_is_zero(self) THEN self
    ELSE IF ~float_is_normal(self) THEN [self EXCEPT !.panicked = TRUE]
    ELSE sin_reduced(self)

(***************************************************************************)
(* The sampled inputs.                                                     *)
(***************************************************************************)
ExpSamples(E) ==
    {e \in 0..ToInt(mask(E)) :
        \/ e <= ExpSpread
        \/ e >= ToInt(mask(E)) - ExpSpread
        \/ (e >= compute_ieee745_bias(E) - ExpSpread
            /\ e <= compute_ieee745_bias(E) + ExpSpread)}

LowBits(M) == {BitsOf(k) : k \in 0..MantSpread}

TopBits(M) == {{M - 1 - i : i \in BitsOf(k)} : k \in 0..MantSpread}

MantSamples(M) ==
    LowBits(M) \cup TopBits(M)
    \cup {mask(M) \ m : m \in LowBits(M) \cup TopBits(M)}

\* the sampled bit patterns of the format c
Patterns(c) ==
    {pattern(c[1], c[2], s, e, m) :
        s \in BOOLEAN, e \in ExpSamples(c[1]), m \in MantSamples(c[2])}

\* the integers around which from_u64 is sampled in the format (E, M): the
\* first powers of two that need rounding and the first integer that rounds
\* to Infinity
IntBases(E, M) ==
    {2^(M + 1), 2^(M + 2), 3 * 2^(M + 1)}
    \cup (IF compute_ieee745_bias(E) < 30
          THEN {2^(compute_ieee745_bias(E) + 1)
                - 2^(compute_ieee745_bias(E) - M - 1)}
          ELSE {})

IntSamples(E, M) ==
    (0..IntSpread)
    \cup UNION {(b - IntSpread)..(b + IntSpread) : b \in IntBases(E, M)}

(***************************************************************************)
(* lib/float: one action per conversion, applied to a sampled input.       *)
(***************************************************************************)
Init == pc = "init" /\ arg = <<>> /\ res = <<>>

\* test_load_store_all_f32: FP32::from_f32(f32::from_bits(b)).as_f32()
LoadStore32 ==
    /\ pc = "init"
    /\ \E b \in Patterns(FP32) :
          /\ arg' = [bits |-> b]
          /\ res' = float_as_f32(float_from_f32(8, 23, b))
    /\ pc' = "load_store_f32"

\* FP64::from_f64(f64::from_bits(b)).as_f64()
LoadStore64 ==
    /\ pc = "init"
    /\ \E b \in Patterns(FP64) :
          /\ arg' = [bits |-> b]
          /\ res' = float_as_f64(float_from_f64(11, 52, b))
    /\ pc' = "load_store_f64"

\* Float<E, M>::from_bits(b)
FromBits ==
    /\ pc = "init"
    /\ \E c \in Configs : \E b \in Patterns(c) :
          /\ arg' = [E |-> c[1], M |-> c[2], bits |-> b]
          /\ res' = float_from_bits(c[1], c[2], b)
    /\ pc' = "from_bits"

\* Float<E, M>::from_i64(n) and, for n >= 0, from_u64(n), read back in the
\* configuration's own encoding and as f64
FromInteger ==
    /\ pc = "init"
    /\ \E c \in {FP16, FP32} : \E a \in IntSamples(c[1], c[2]) :
       \E neg \in BOOLEAN :
          LET n == IF neg THEN -a ELSE a
              v == float_from_i64(c[1], c[2], n)
          IN  /\ arg' = [E |-> c[1], M |-> c[2], n |-> n]
              /\ res' = [value |-> v,
                         own |-> float_as_native_float(v),
                         f64 |-> float_as_f64(v)]
    /\ pc' = "from_integer"

\* inf(s) and nan(s) of lib/float
float_special(kind, E, M, s) ==
    IF kind = "inf" THEN float_inf(E, M, s) ELSE float_nan(E, M, s)

\* inf(s).as_f32(), inf(s).as_f64(), nan(s).as_f32(), nan(s).as_f64()
FloatSpecialAsNative ==
    /\ pc = "init"
    /\ \E c \in Configs : \E s \in BOOLEAN : \E kind \in {"inf", "nan"} :
          LET v == float_special(kind, c[1], c[2], s)
          IN  /\ arg' = [E |-> c[1], M |-> c[2], sign |-> s, kind |-> kind]
              /\ res' = [f32 |-> float_as_f32(v), f64 |-> float_as_f64(v)]
    /\ pc' = "float_special_as_native"

\* inf(s).cast::<E, M>() and nan(s).cast::<E, M>()
FloatCastSpecial ==
    /\ pc = "init"
    /\ \E c \in Configs : \E d \in Configs :
       \E s \in BOOLEAN : \E kind \in {"inf", "nan"} :
          /\ arg' = [E |-> c[1], M |-> c[2], toE |-> d[1], toM |-> d[2],
                     sign |-> s, kind |-> kind]
          /\ res' = float_cast(float_special(kind, c[1], c[2], s), d[1], d[2])
    /\ pc' = "float_cast_special"

\* an f32 loaded into FP32, cast to FP64 and back, and an f32 loaded into
\* FP64 and cast to FP32
FloatWidenNarrow ==
    /\ pc = "init"
    /\ \E b \in Patterns(FP32) :
          LET v == float_from_f32(8, 23, b)
              w == float_from_f32(11, 52, b)
          IN  /\ arg' = [bits |-> b]
              /\ res' = [orig |-> float_as_f32(v),
                         back |-> float_as_f32(
                                      float_cast(float_cast(v, 11, 52), 8, 23)),
                         loaded |-> float_as_f32(w),
                         narrowed |-> float_as_f32(float_cast(w, 8, 23))]
    /\ pc' = "float_widen_narrow"

(***************************************************************************)
(* lib/frost: one action per operation, applied to a sampled input.        *)
(***************************************************************************)
\* inf(s) and nan(s) of lib/frost
frost_special(kind, E, M, s) ==
    IF kind = "inf" THEN frost_inf(E, M, s) ELSE frost_nan(E, M, s)

FrostSpecialAsNative ==
    /\ pc = "init"
    /\ \E c \in Configs : \E s \in BOOLEAN : \E kind \in {"inf", "nan"} :
          LET v == frost_special(kind, c[1], c[2], s)
          IN  /\ arg' = [E |-> c[1], M |-> c[2], sign |-> s, kind |-> kind]
              /\ res' = [f32 |-> frost_as_f32(v), f64 |-> frost_as_f64(v)]
    /\ pc' = "frost_special_as_native"

FrostCastSpecial ==
    /\ pc = "init"
    /\ \E c \in Configs : \E d \in Configs :
       \E s \in BOOLEAN : \E kind \in {"inf", "nan"} :
          /\ arg' = [E |-> c[1], M |-> c[2], toE |-> d[1], toM |-> d[2],
                     sign |-> s, kind |-> kind]
          /\ res' = frost_cast(frost_special(kind, c[1], c[2], s), d[1], d[2])
    /\ pc' = "frost_cast_special"

\* test_conversion_wide_range, and the same from FP32 to FP64 and back
FrostWidenNarrow ==
    /\ pc = "init"
    /\ \E b \in Patterns(FP32) :
          LET v == frost_from_f32(8, 23, b)
              w == frost_from_f32(11, 52, b)
          IN  /\ arg' = [bits |-> b]
              /\ res' = [orig |-> frost_as_f32(v),
                         back |-> frost_as_f32(
                                      frost_cast(frost_cast(v, 11, 52), 8, 23)),
                         loaded |-> frost_as_f32(w),
                         narrowed |-> frost_as_f32(frost_cast(w, 8, 23))]
    /\ pc' = "frost_widen_narrow"

\* Float<E, M>::from_f32(v) and Float<E, M>::from_f64(v)
FrostFromNative ==
    /\ pc = "init"
    /\ \E c \in Configs : \E n \in {FP32, FP64} : \E b \in Patterns(n) :
          /\ arg' = [E |-> c[1], M |-> c[2], fromE |-> n[1], fromM |-> n[2],
                     bits |-> b]
          /\ res' = frost_from_bits(c[1], c[2], n[1], n[2], b)
    /\ pc' = "frost_from_native"

\* test_addition's add_helper on the integers i and j, in both orders
FrostAddIntegers ==
    /\ pc = "init"
    /\ \E i \in (-AddRange)..AddRange : \E j \in (-AddRange)..AddRange :
          LET x == frost_from_f64(11, 52, native_from_int(11, 52, i))
              y == frost_from_f64(11, 52, native_from_int(11, 52, j))
          IN  /\ arg' = [i |-> i, j |-> j]
              /\ res' = [xy |-> frost_as_f64(frost_add(x, y)),
                         yx |-> frost_as_f64(frost_add(y, x))]
    /\ pc' = "frost_add_integers"

\* the magnitude of the finite pattern b of (E, M), in units of the smallest
\* subnormal
magnitude(E, M, b) ==
    LET ef == native_exp_field(E, M, b)
        mf == native_mant_field(E, M, b)
    IN  IF ef = 0 THEN mf ELSE {i + (ef - 1) : i \in mf \cup {M}}

\* the largest finite magnitude of (E, M)
max_magnitude(E, M) == {i + (2^E - 3) : i \in mask(M + 1)}

\* a < b for integers of any width
wide_lt(a, b) == a # b /\ Max((a \ b) \cup (b \ a)) \in b

is_finite(E, M, b) == native_exp_field(E, M, b) # 2^E - 1

negated(E, M, b) == IF (E + M) \in b THEN b \ {E + M} ELSE b \cup {E + M}

\* the pairs of finite operands given to add: a nonzero value and its
\* negation, and two large values of the same sign
AddPairs(c) ==
    LET E == c[1]
        M == c[2]
        finite == {b \in Patterns(c) : is_finite(E, M, b)}
        large == {b \in finite : native_exp_field(E, M, b) >= 2^E - 3}
    IN  {<<b, negated(E, M, b)>> : b \in {f \in finite : magnitude(E, M, f) # {}}}
        \cup {p \in large \X large :
                 native_sign(E, M, p[1]) = native_sign(E, M, p[2])}

\* add(x, y) of two finite values of one configuration, loaded by from_bits
FrostAdd ==
    /\ pc = "init"
    /\ \E c \in Configs : \E p \in AddPairs(c) :
          LET x == frost_from_bits(c[1], c[2], c[1], c[2], p[1])
              y == frost_from_bits(c[1], c[2], c[1], c[2], p[2])
          IN  /\ arg' = [E |-> c[1], M |-> c[2], x |-> p[1], y |-> p[2]]
              /\ res' = frost_add(x, y)
    /\ pc' = "frost_add"

\* the exponents given to new and set_exp: those around the two bounds of
\* get_exp_bounds and around zero
NewExps(E) ==
    LET b == frost_get_exp_bounds(E)
    IN  {e \in (b[1] - 1)..(b[2] + 1) :
            \/ e <= b[1] + ExpSpread
            \/ (-ExpSpread <= e /\ e <= ExpSpread)
            \/ e >= b[2] - ExpSpread}

\* the left-aligned mantissas given to new
NewMantissas(M) ==
    {{}} \cup {expand_mantissa_to_explicit(M, m, TRUE) :
                  m \in LowBits(M) \cup TopBits(M)}

\* Float<E, M>::new(sign, exp, sig), which is set_exp(exp) on a fresh value
FrostNew ==
    /\ pc = "init"
    /\ \E c \in Configs : \E s \in BOOLEAN :
       \E e \in NewExps(c[1]) : \E sg \in NewMantissas(c[2]) :
          /\ arg' = [E |-> c[1], M |-> c[2], sign |-> s, exp |-> e, sig |-> sg]
          /\ res' = frost_new(c[1], c[2], s, e, sg)
    /\ pc' = "frost_new"

\* Float<E, M>::from_u64(n) and Float<E, M>::from_i64(-n)
FrostFromInteger ==
    /\ pc = "init"
    /\ \E c \in {FP16, FP32} : \E n \in IntSamples(c[1], c[2]) :
       \E neg \in BOOLEAN :
          /\ arg' = [E |-> c[1], M |-> c[2], n |-> n, neg |-> neg]
          /\ res' = IF neg THEN frost_from_i64(c[1], c[2], -n)
                    ELSE frost_from_u64(c[1], c[2], BitsOf(n))
    /\ pc' = "frost_from_integer"

\* cast of a value that new, from_u64 or from_i64 returned
FrostCastValue ==
    /\ pc \in {"frost_new", "frost_from_integer"}
    /\ ~res.panicked
    /\ \E d \in Configs :
          /\ arg' = [E |-> res.E, M |-> res.M, toE |-> d[1], toM |-> d[2],
                     value |-> res]
          /\ res' = frost_cast(res, d[1], d[2])
    /\ pc' = "frost_cast"

\* the pairs of finite operands whose exponents differ by more than the
\* mantissa width: x around 1.0 and y at the bottom of the range
FarPairs(c) ==
    LET E == c[1]
        M == c[2]
        bias == compute_ieee745_bias(E)
    IN  {pattern(E, M, s, e, m) :
            s \in BOOLEAN, e \in bias..(bias + ExpSpread),
            m \in LowBits(M) \cup TopBits(M) \cup {mask(M)}}
        \X {pattern(E, M, s, e, m) :
               s \in BOOLEAN, e \in 0..ExpSpread, m \in LowBits(M)}

\* add(x, y) of a value x and a much smaller value y, in both orders
FrostAddFar ==
    /\ pc = "init"
    /\ \E c \in Configs : \E p \in FarPairs(c) :
          LET x == frost_from_bits(c[1], c[2], c[1], c[2], p[1])
              y == frost_from_bits(c[1], c[2], c[1], c[2], p[2])
          IN  /\ arg' = [E |-> c[1], M |-> c[2], x |-> x, y |-> y]
              /\ res' = [xy |-> frost_add(x, y), yx |-> frost_add(y, x)]
    /\ pc' = "frost_add_far"

(***************************************************************************)
(* src/functions.rs: one action per call, and one per iteration of a loop. *)
(***************************************************************************)
\* the receivers of sqrt: the sampled patterns of FP16 and FP32, and the
\* squares of test_sqrt in FP64
SqrtInputs ==
    UNION {{[E |-> c[1], M |-> c[2],
             self |-> float_from_bits(c[1], c[2], b), i |-> -1] :
               b \in Patterns(c)} : c \in {FP16, FP32}}
    \cup {[E |-> 11, M |-> 52, self |-> float_from_u64(11, 52, BitsOf(i * i)),
           i |-> i] : i \in 0..(Roots - 1)}

\* self.sqrt() up to its loop
SqrtCall ==
    /\ pc = "init"
    /\ \E in \in SqrtInputs :
          /\ arg' = in
          /\ IF sqrt_returns_early(in.self)
             THEN /\ res' = [x |-> sqrt_early(in.self), prev |-> in.self,
                             iter |-> 0]
                  /\ pc' = "sqrt_done"
             ELSE /\ res' = [x |-> sqrt_seed(in.self),
                             prev |-> sqrt_seed(in.self), iter |-> 0]
                  /\ pc' = "sqrt_loop"

\* one iteration of the loop of sqrt
SqrtIterate ==
    /\ pc = "sqrt_loop"
    /\ res.iter < MaxSqrtIter
    /\ res' = [x |-> sqrt_next(arg.self, res.x), prev |-> res.x,
               iter |-> res.iter + 1]
    /\ pc' = IF sqrt_exits(res.x, res'.x) THEN "sqrt_done" ELSE "sqrt_loop"
    /\ UNCHANGED arg

\* the operands of min and max: FP64 patterns of both signs with the
\* smallest, the next and the largest mantissa field
MinMaxOperands ==
    {pattern(11, 52, sg, e, m) :
        sg \in BOOLEAN, e \in ExpSamples(11), m \in {{}, {0}, mask(52)}}

\* x.min(y) and x.max(y), as test_min_max calls them
MinMax ==
    /\ pc = "init"
    /\ \E bx \in MinMaxOperands : \E by \in MinMaxOperands :
          LET x == float_from_f64(11, 52, bx)
              y == float_from_f64(11, 52, by)
          IN  /\ arg' = [E |-> 11, M |-> 52, x |-> bx, y |-> by]
              /\ res' = [min |-> float_min(x, y), max |-> float_max(x, y)]
    /\ pc' = "min_max"

\* the operands of rem: FP16 values of both signs over the sampled exponent
\* fields, the left ones with the smallest, a middle and the largest
\* mantissa field, the right ones with the smallest mantissa fields
RemPairs ==
    {pattern(5, 10, sg, e, m) :
        sg \in BOOLEAN, e \in ExpSamples(5), m \in {{}, {9}, mask(10)}}
    \X {pattern(5, 10, sg, e, m) :
           sg \in BOOLEAN, e \in ExpSamples(5), m \in LowBits(10)}

\* self.rem(rhs) up to its loop
RemCall ==
    /\ pc = "init"
    /\ \E p \in RemPairs :
          LET x == float_from_bits(5, 10, p[1])
              y == float_from_bits(5, 10, p[2])
          IN  /\ arg' = [E |-> 5, M |-> 10, x |-> x, y |-> y]
              /\ IF rem_returns_early(x, y)
                 THEN /\ res' = [lhs |-> rem_early(x, y), rhs |-> y,
                                 iter |-> 0, exp0 |-> 0]
                      /\ pc' = "rem_done"
                 ELSE /\ res' = [lhs |-> rem_operands(x, y)[1],
                                 rhs |-> rem_operands(x, y)[2],
                                 iter |-> 0,
                                 exp0 |-> float_get_exp(x)]
                      /\ pc' = "rem_loop"

\* the loop of rem: one iteration, or the return when the condition fails
RemIterate ==
    /\ pc = "rem_loop"
    /\ IF rem_continues(res.lhs, res.rhs)
       THEN /\ res.iter < MaxRemIter
            /\ res' = [res EXCEPT !.lhs = rem_body(res.lhs, res.rhs),
                                  !.iter = res.iter + 1]
            /\ pc' = "rem_loop"
       ELSE /\ res' = [res EXCEPT !.lhs = rem_finish(arg.x, res.lhs)]
            /\ pc' = "rem_done"
    /\ UNCHANGED arg

\* the configurations pi() is run in: the named ones and every mantissa
\* width from 2 to MaxPiMantissa over an 8-bit exponent
PiConfigs ==
    Configs \cup {FP128} \cup {<<8, m>> : m \in 2..MaxPiMantissa}

\* Self::pi(): the initialisation of a, b, t and x before the loop
PiCall ==
    /\ pc = "init"
    /\ \E c \in PiConfigs :
          /\ arg' = [E |-> c[1], M |-> c[2]]
          /\ res' = [v |-> pi_start(c[1], c[2]), iter |-> 0,
                     value |-> unfinished(c[1], c[2])]
    /\ pc' = "pi_loop"

\* the loop of pi(): one iteration, or the return of a * a / t when a == b
PiIterate ==
    /\ pc = "pi_loop"
    /\ IF pi_continues(res.v)
       THEN /\ res.iter < MaxPiIter
            /\ res' = [res EXCEPT !.v = pi_body(res.v),
                                  !.iter = res.iter + 1]
            /\ pc' = "pi_loop"
       ELSE /\ res' = [res EXCEPT !.value = pi_finish(res.v)]
            /\ pc' = "pi_done"
    /\ UNCHANGED arg

\* the operands of sin: every sampled FP16 pattern
SinInputs == Patterns(FP16)

\* self.sin()
Sin ==
    /\ pc = "init"
    /\ \E b \in SinInputs :
          LET x == float_from_bits(5, 10, b)
          IN  /\ arg' = [E |-> 5, M |-> 10, x |-> x]
              /\ res' = float_sin(x)
    /\ pc' = "sin"

Next ==
    \/ LoadStore32
    \/ LoadStore64
    \/ FromBits
    \/ FromInteger
    \/ FloatSpecialAsNative
    \/ FloatCastSpecial
    \/ FloatWidenNarrow
    \/ FrostSpecialAsNative
    \/ FrostCastSpecial
    \/ FrostWidenNarrow
    \/ FrostFromNative
    \/ FrostAddIntegers
    \/ FrostAdd
    \/ FrostNew
    \/ FrostFromInteger
    \/ FrostCastValue
    \/ FrostAddFar
    \/ SqrtCall
    \/ SqrtIterate
    \/ MinMax
    \/ RemCall
    \/ RemIterate
    \/ PiCall
    \/ PiIterate
    \/ Sin

Spec == Init /\ [][Next]_vars

(***************************************************************************)
(* Properties of lib/float.                                                *)
(***************************************************************************)
\* what a load followed by a store has to give for the pattern b of (E, M)
RoundTripOk(E, M, b, r) ==
    /\ ~r.panicked
    /\ ~native_is_nan(E, M, b) => r.bits = b
    /\ native_is_nan(E, M, b) =>
          native_is_nan(E, M, r.bits) /\ ~native_is_infinite(E, M, r.bits)

\* C1: a native pattern that is not a NaN (zeros, subnormals, normals and
\* Infinities) is loaded by from_f32 and stored by as_f32 to the same 32 bits,
\* and a NaN pattern to a NaN that is not an Infinity; the same for the 64-bit
\* patterns through from_f64 and as_f64.
C1_LoadStoreRoundTrip ==
    /\ pc = "load_store_f32" => RoundTripOk(8, 23, arg.bits, res)
    /\ pc = "load_store_f64" => RoundTripOk(11, 52, arg.bits, res)

\* a subnormal f32 pattern went through the load and the store unchanged
C1_Witness ==
    /\ pc = "load_store_f32"
    /\ native_exp_field(8, 23, arg.bits) = 0
    /\ native_mant_field(8, 23, arg.bits) # {}
    /\ res.bits = arg.bits

\* C2: from_bits decodes every pattern by its exponent field: all ones with a
\* zero mantissa field is the Infinity of the pattern's sign, all ones with a
\* nonzero mantissa field the NaN of that sign, zero a value without the
\* implicit bit at the exponent 1 - bias, and any other field a value with
\* the implicit bit 2^MANTISSA at the exponent field - bias.
C2_FromBitsDecodes ==
    pc = "from_bits" =>
        LET E == arg.E
            M == arg.M
            ef == native_exp_field(E, M, arg.bits)
            mf == native_mant_field(E, M, arg.bits)
            bias == compute_ieee745_bias(E)
        IN  /\ ~res.panicked
            /\ float_get_sign(res) = native_sign(E, M, arg.bits)
            /\ (ef = 2^E - 1 /\ mf = {}) => float_is_inf(res)
            /\ (ef = 2^E - 1 /\ mf # {}) => float_is_nan(res)
            /\ ef = 0 =>
                  /\ float_get_mantissa(res) = mf
                  /\ float_get_exp(res) = 1 - bias
                  /\ ~float_is_inf(res) /\ ~float_is_nan(res)
            /\ (ef # 0 /\ ef # 2^E - 1) =>
                  /\ float_get_mantissa(res) = mf \cup {M}
                  /\ float_get_exp(res) = ef - bias
                  /\ float_is_normal(res)

\* a negative subnormal pattern of the 16-bit configuration was decoded
C2_Witness ==
    /\ pc = "from_bits"
    /\ arg.E = 5
    /\ native_sign(5, 10, arg.bits)
    /\ native_exp_field(5, 10, arg.bits) = 0
    /\ native_mant_field(5, 10, arg.bits) # {}
    /\ float_get_exp(res) = -14

\* C7: from_u64 and from_i64 give the representable value nearest to n, ties
\* to even, and Infinity when n rounds past the largest finite value: in the
\* 5/10 configuration 65500, 65504 and 65519 give 65504 and 65520 and 65536
\* give Infinity; in FP32 the result is the native conversion of n.
C7_FromIntegerNearest ==
    pc = "from_integer" =>
        LET E == arg.E
            M == arg.M
            a == IF arg.n < 0 THEN -arg.n ELSE arg.n
            signbit == IF arg.n < 0 THEN {E + M} ELSE {}
        IN  /\ ~res.own.panicked /\ ~res.f64.panicked
            /\ arg.n = 0 => res.own.bits = {}
            /\ arg.n # 0 =>
                  res.own.bits = native_nearest_int(E, M, a) \cup signbit
            /\ (E = 5 /\ arg.n \in {65500, 65504, 65519}) =>
                  res.f64.bits = native_from_int(11, 52, 65504)
            /\ (E = 5 /\ arg.n \in {65520, 65536}) =>
                  /\ float_is_inf(res.value)
                  /\ res.f64.bits = pattern(11, 52, FALSE, 2047, {})

\* 65520 was converted in the 5/10 configuration and gave Infinity
C7_Witness ==
    /\ pc = "from_integer"
    /\ arg.E = 5
    /\ arg.n = 65520
    /\ float_is_inf(res.value)

(***************************************************************************)
(* Properties that lib/float and lib/frost share, and those of lib/frost.  *)
(***************************************************************************)
\* the pattern r.bits of (E, M) is the special value kind of sign s
SpecialEncoded(E, M, r, kind, s) ==
    /\ ~r.panicked
    /\ native_sign(E, M, r.bits) = s
    /\ native_exp_field(E, M, r.bits) = 2^E - 1
    /\ kind = "inf" => native_mant_field(E, M, r.bits) = {}
    /\ kind = "nan" => native_mant_field(E, M, r.bits) # {}

\* C3: in every configuration, of the BigInt-backed Float and of the
\* single-word Float, inf(s) is stored by as_f32 and as_f64 as sign s, exponent
\* field all ones, mantissa field zero, and nan(s) as sign s, exponent field
\* all ones, mantissa field nonzero.
C3_SpecialsKeepTheirClass ==
    pc \in {"float_special_as_native", "frost_special_as_native"} =>
        /\ SpecialEncoded(8, 23, res.f32, arg.kind, arg.sign)
        /\ SpecialEncoded(11, 52, res.f64, arg.kind, arg.sign)

\* C4: a value cast to a wider configuration and back keeps its native bit
\* pattern and the casts complete: an FP32 value cast to FP64 and back to
\* FP32, and a native f32 loaded into FP64 and cast to FP32, zeros,
\* subnormals, Infinities and NaNs included.
C4_WidenNarrowRoundTrip ==
    pc \in {"float_widen_narrow", "frost_widen_narrow"} =>
        /\ ~res.orig.panicked /\ ~res.back.panicked
        /\ ~res.loaded.panicked /\ ~res.narrowed.panicked
        /\ res.back.bits = res.orig.bits
        /\ res.narrowed.bits = res.loaded.bits

\* C5: for every pair of source and destination configurations the cast of
\* an Infinity is an Infinity of the same sign, the cast of a NaN is a NaN of
\* the same sign, and the cast completes.
C5_CastPropagatesSpecials ==
    /\ pc = "float_cast_special" =>
          /\ ~res.panicked
          /\ float_get_sign(res) = arg.sign
          /\ arg.kind = "inf" => float_is_inf(res) /\ ~float_is_nan(res)
          /\ arg.kind = "nan" => float_is_nan(res) /\ ~float_is_inf(res)
    /\ pc = "frost_cast_special" =>
          /\ ~res.panicked
          /\ frost_get_sign(res) = arg.sign
          /\ arg.kind = "inf" => frost_is_inf(res) /\ ~frost_is_nan(res)
          /\ arg.kind = "nan" => frost_is_nan(res) /\ ~frost_is_inf(res)

\* C6: in the single-word Float, from_f32 and from_f64 into any target
\* configuration complete and classify the value like the native one: is_inf
\* exactly for a native Infinity, is_nan exactly for a native NaN, and
\* is_negative equal to the native sign bit.
C6_FromNativeClassifies ==
    pc = "frost_from_native" =>
        /\ ~res.panicked
        /\ frost_is_inf(res) = native_is_infinite(arg.fromE, arg.fromM, arg.bits)
        /\ frost_is_nan(res) = native_is_nan(arg.fromE, arg.fromM, arg.bits)
        /\ frost_is_negative(res) = native_sign(arg.fromE, arg.fromM, arg.bits)

\* C8: for the integers i and j, add(from_f64(i), from_f64(j)).as_f64() has
\* the bit pattern of the native sum i + j, in both argument orders.
C8_AddMatchesNative ==
    pc = "frost_add_integers" =>
        /\ ~res.xy.panicked /\ ~res.yx.panicked
        /\ res.xy.bits = native_from_int(11, 52, arg.i + arg.j)
        /\ res.yx.bits = native_from_int(11, 52, arg.i + arg.j)

\* C9: add of two finite nonzero operands of equal magnitude and opposite
\* sign is +0, whichever operand is passed first.
C9_CancellationGivesPlusZero ==
    (/\ pc = "frost_add"
     /\ arg.y = negated(arg.E, arg.M, arg.x)
     /\ magnitude(arg.E, arg.M, arg.x) # {}) =>
        /\ ~res.panicked
        /\ ~frost_is_negative(res)
        /\ frost_get_unbiased_exp(res) = 0
        /\ res.mantissa = {}

\* the exact sum of the finite patterns x and y of one sign is larger than
\* the largest finite value
SumOverflows(E, M, x, y) ==
    /\ native_sign(E, M, x) = native_sign(E, M, y)
    /\ wide_lt(max_magnitude(E, M),
               AddBits(magnitude(E, M, x), magnitude(E, M, y)))

\* C10: add of two finite operands of one sign whose exact sum exceeds the
\* largest finite value completes and returns the Infinity of that sign,
\* never a NaN and never a finite value.
C10_AddOverflowsToInfinity ==
    (pc = "frost_add" /\ SumOverflows(arg.E, arg.M, arg.x, arg.y)) =>
        /\ ~res.panicked
        /\ frost_is_inf(res) /\ ~frost_is_nan(res)
        /\ frost_is_negative(res) = native_sign(arg.E, arg.M, arg.x)

\* the states that hold a single-word Float returned by new, set_exp,
\* from_u64, from_i64, cast or add
HoldsFrostValue == pc \in {"frost_new", "frost_from_integer", "frost_cast",
                           "frost_add"}

\* C19: after new, set_exp, from_u64, from_i64, cast and add that do not
\* abort, the stored biased exponent fits in the EXPONENT-bit field:
\* 0 <= exp <= 2^EXPONENT - 1.
C19_ExponentFitsField ==
    (HoldsFrostValue /\ ~res.panicked) =>
        (0 <= res.exp /\ res.exp <= 2^(res.E) - 1)

\* x and y are finite and the exponent of x exceeds that of y by more than
\* the mantissa width
FarApart(x, y) ==
    /\ ~frost_in_special_exp(x) /\ ~frost_in_special_exp(y)
    /\ frost_get_exp(x) - frost_get_exp(y) > x.M + 1

\* r has the sign, the exponent and the mantissa of x
SameValue(r, x) ==
    /\ ~r.panicked
    /\ frost_get_sign(r) = frost_get_sign(x)
    /\ frost_get_exp(r) = frost_get_exp(x)
    /\ frost_get_mantissa(r) = frost_get_mantissa(x)

\* C20: for finite x and y with get_exp(x) - get_exp(y) > MANTISSA + 1,
\* add(x, y) has the sign, the exponent and the mantissa of x, whether the
\* signs of x and y agree or differ.
C20_FarOperandContributesNothing ==
    (pc = "frost_add_far" /\ FarApart(arg.x, arg.y)) =>
        (SameValue(res.xy, arg.x) /\ SameValue(res.yx, arg.x))

(***************************************************************************)
(* Properties of src/functions.rs.                                         *)
(***************************************************************************)
\* C12: sqrt returns the special inputs as values and does not abort:
\* sqrt(+0) = +0 and sqrt(-0) = -0; sqrt of a NaN and of any negative nonzero
\* input, -Infinity included, is a NaN with the input's sign;
\* sqrt(+Infinity) = +Infinity.
C12_SqrtOfSpecials ==
    (pc = "sqrt_done" /\ sqrt_returns_early(arg.self)) =>
        LET a == arg.self
            r == res.x
        IN  /\ ~r.panicked
            /\ res.iter = 0
            /\ a.category = "Zero" =>
                   (r.category = "Zero" /\ r.sign = a.sign)
            /\ (a.category = "NaN" \/ (a.sign /\ a.category # "Zero")) =>
                   (r.category = "NaN" /\ r.sign = a.sign)
            /\ (a.category = "Infinity" /\ ~a.sign) =>
                   (r.category = "Infinity" /\ ~r.sign)

\* sqrt was given -Infinity and a negative subnormal
C12_Witness ==
    /\ pc = "sqrt_done"
    /\ arg.self.sign
    /\ arg.self.category \in {"Infinity", "Normal"}
    /\ res.x.category = "NaN" /\ res.x.sign

\* C13: for every integer i in [0, 256), FP64::from_u64(i * i).sqrt() is
\* exactly i: the loop stops on the root and not on a neighbouring value.
C13_SqrtOfSquares ==
    (pc = "sqrt_done" /\ arg.i >= 0) =>
        /\ ~float_as_f64(res.x).panicked
        /\ float_as_f64(res.x).bits = native_from_int(11, 52, arg.i)

\* the root 255 was reached after several iterations
C13_Witness ==
    /\ pc = "sqrt_done" /\ arg.i = Roots - 1 /\ res.iter > 2
    /\ float_as_f64(res.x).bits = native_from_int(11, 52, Roots - 1)

\* the number of iterations within which the loop of sqrt is left: the
\* iterate falls from at most 2^(bias + 1) to the root by halving, then
\* converges quadratically
sqrt_iterations(E, M) == float_get_bias(E) + M

\* C16: sqrt terminates for every positive finite input, the smallest
\* subnormal and the largest finite value included: while the loop runs the
\* iterate x is a finite positive number (never NaN, Infinity or Zero), each
\* iteration that stays in the loop lowers it, and the loop is left within
\* a number of iterations fixed by the configuration.
C16_SqrtTerminates ==
    /\ [](pc = "sqrt_loop" =>
             /\ res.x.category = "Normal" /\ ~res.x.sign /\ ~res.x.panicked
             /\ res.iter < sqrt_iterations(arg.E, arg.M)
             /\ res.iter < MaxSqrtIter)
    /\ [][(pc = "sqrt_loop" /\ pc' = "sqrt_loop") =>
             float_lt(res'.x, res.x)]_vars

\* sqrt of the largest finite value or of the smallest subnormal of FP32
\* has returned
C16_Witness ==
    /\ pc = "sqrt_done" /\ arg.i < 0 /\ arg.E = 8
    /\ arg.self.category = "Normal" /\ ~arg.self.sign
    /\ \/ (arg.self.exp = float_get_exp_bounds(8)[2]
           /\ arg.self.mantissa = mask(24))
       \/ (arg.self.exp = float_get_exp_bounds(8)[1]
           /\ arg.self.mantissa = {0})
    /\ res.iter > 8
    /\ res.x.category = "Normal"

\* the pattern bx is numerically below the pattern by, for two patterns of
\* one sign that are not NaNs
BelowSameSign(E, M, bx, by) ==
    IF native_sign(E, M, bx)
    THEN wide_lt(by \ {E + M}, bx \ {E + M})
    ELSE wide_lt(bx \ {E + M}, by \ {E + M})

\* C14: when exactly one of x and y is a NaN, min and max return the other
\* operand; when neither is a NaN and the signs differ, min returns the
\* negative and max the positive operand (so min(+0, -0) = -0 and
\* max(-0, +0) = +0 in either order); when the signs agree, min returns the
\* numerically smaller and max the numerically larger operand.
C14_MinMax ==
    pc = "min_max" =>
        LET x == float_from_f64(11, 52, arg.x)
            y == float_from_f64(11, 52, arg.y)
            xnan == native_is_nan(11, 52, arg.x)
            ynan == native_is_nan(11, 52, arg.y)
            xneg == native_sign(11, 52, arg.x)
            yneg == native_sign(11, 52, arg.y)
        IN  /\ (xnan /\ ~ynan) => (res.min = y /\ res.max = y)
            /\ (ynan /\ ~xnan) => (res.min = x /\ res.max = x)
            /\ (~xnan /\ ~ynan /\ xneg # yneg) =>
                   /\ res.min = (IF xneg THEN x ELSE y)
                   /\ res.max = (IF xneg THEN y ELSE x)
            /\ (~xnan /\ ~ynan /\ xneg = yneg) =>
                   IF BelowSameSign(11, 52, arg.x, arg.y)
                   THEN res.min = x /\ res.max = y
                   ELSE res.min = y /\ res.max = x

\* min and max of +0 and -0
C14_Witness ==
    /\ pc = "min_max"
    /\ arg.x = {} /\ arg.y = {63}
    /\ res.min.category = "Zero" /\ res.min.sign
    /\ res.max.category = "Zero" /\ ~res.max.sign

\* |a| of the finite value a in units of the smallest subnormal
float_magnitude(a) ==
    IF a.category = "Zero" THEN {}
    ELSE {i + (a.exp - float_get_exp_bounds(a.E)[1]) : i \in a.mantissa}

\* C11: self.rem(rhs) agrees with fmod: the result is a NaN exactly when
\* self is a NaN, rhs is a NaN, self is an Infinity or rhs is a Zero; self is
\* returned unchanged when self is a Zero or rhs is an Infinity; otherwise
\* the result r has the sign of self, |r| < |rhs|, and |self| - |r| is an
\* exact integer multiple of |rhs|.
C11_RemIsFmod ==
    pc = "rem_done" =>
        LET x == arg.x
            y == arg.y
            r == res.lhs
            nan_case == \/ x.category = "NaN" \/ y.category = "NaN"
                        \/ x.category = "Infinity" \/ y.category = "Zero"
        IN  /\ ~r.panicked
            /\ (r.category = "NaN") = nan_case
            /\ (~nan_case /\ (x.category = "Zero" \/ y.category = "Infinity"))
                   => r = x
            /\ (~nan_case /\ x.category = "Normal" /\ y.category = "Normal") =>
                   /\ r.category \in {"Zero", "Normal"}
                   /\ r.sign = x.sign
                   /\ ult(float_magnitude(r), float_magnitude(y))
                   /\ ~ult(float_magnitude(x), float_magnitude(r))
                   /\ DivBits(SubBits(float_magnitude(x), float_magnitude(r)),
                              float_magnitude(y))[2] = {}

\* a negative value was reduced in several iterations to a nonzero
\* remainder
C11_Witness ==
    /\ pc = "rem_done"
    /\ arg.x.category = "Normal" /\ arg.x.sign
    /\ arg.y.category = "Normal"
    /\ res.iter >= 3
    /\ res.lhs.category = "Normal" /\ res.lhs.sign

\* C17: the loop of rem terminates for all finite nonzero operands in a
\* number of iterations bounded by the exponent range: every iteration
\* subtracts a positive diff <= lhs and lowers the exponent of lhs or ends
\* the loop, so after k iterations a loop that still runs has an lhs whose
\* exponent is at least k below the first one.
C17_RemLowersExponent ==
    pc = "rem_loop" =>
        /\ ~res.lhs.panicked
        /\ res.lhs.category \in {"Zero", "Normal"} /\ ~res.lhs.sign
        /\ rem_continues(res.lhs, res.rhs) =>
               (/\ float_get_exp(res.lhs) <= res.exp0 - res.iter
                /\ res.iter < 2^(arg.E))

\* the number of iterations the configuration allows the loop of pi():
\* the number of binary digits of the precision MANTISSA + 1
RECURSIVE bit_length(_)
bit_length(n) == IF n = 0 THEN 0 ELSE 1 + bit_length(n \div 2)

pi_iterations(E, M) == bit_length(M + 1)

\* C18: pi() terminates in every configuration: a and b are never NaN (nor
\* any other non-finite value), and while a != b the number of iterations
\* done is below the count derived from the configuration, the bit length
\* of the precision, so the loop reaches a == b within that many iterations
C18_PiTerminates ==
    pc = "pi_loop" =>
        /\ float_is_normal(res.v.a) /\ ~res.v.a.panicked
        /\ float_is_normal(res.v.b) /\ ~res.v.b.panicked
        /\ float_is_normal(res.v.t) /\ ~res.v.t.panicked
        /\ pi_iterations(arg.E, arg.M) <= MaxPiIter
        /\ pi_continues(res.v) => res.iter < pi_iterations(arg.E, arg.M)

\* pi() of FP64 returns after four iterations with a value between 2 and 4
C18_Witness ==
    /\ pc = "pi_done"
    /\ arg = [E |-> 11, M |-> 52]
    /\ res.iter = 4
    /\ float_eq(res.v.a, res.v.b)
    /\ float_is_normal(res.value) /\ float_get_exp(res.value) = 1


\* C15: sin never raises on an invalid operand: sin of a NaN and of either
\* Infinity is a NaN, sin of a Zero is that Zero, and no operand makes sin
\* abort
C15_SinNeverAborts ==
    pc = "sin" =>
        /\ ~res.panicked
        /\ (float_is_nan(arg.x) \/ float_is_inf(arg.x)) => float_is_nan(res)
        /\ float_is_zero(arg.x) => res = arg.x

\* C21: in the single-word Float, from_u64(n) and from_i64(n) never abort
\* and never return a NaN: the result is +0 when n = 0, and otherwise it has
\* the sign asked for and is either an Infinity, only when n does not fit
\* the exponent range (n >= 2^(bias + 1)), or a finite value for which
\* neither is_inf() nor is_nan() holds
C21_FromIntegerNeverNaN ==
    pc = "frost_from_integer" =>
        /\ ~res.panicked
        /\ ~frost_is_nan(res)
        /\ arg.n = 0 => res = frost_zero(arg.E, arg.M, FALSE)
        /\ arg.n # 0 => frost_get_sign(res) = arg.neg
        /\ frost_is_inf(res) =>
               (frost_get_bias(arg.E) < 30
                /\ arg.n >= 2^(frost_get_bias(arg.E) + 1))

====
